---- MODULE Spec2Model ----
(***************************************************************************)
(* Leave management of managehub: the request lifecycle                    *)
(* (submit / approve / reject / cancel), the eligibility check, the        *)
(* entitlement summary and the balance recomputation of                    *)
(* src/leaves/{models,services,forms,views}.py.                            *)
(*                                                                         *)
(* Dates are day numbers 1..MaxDay.  Decimal day amounts (one decimal      *)
(* place, granularity 0.5) are integers counting half days: Days(n) is the *)
(* Decimal n.  Stored rows carry the fields the lifecycle reads or writes; *)
(* free-text request reasons, created_by and timestamps are not read by    *)
(* any modelled operation and are left out.  Every entitlement has a       *)
(* department, so the Department table is never empty and the summary's    *)
(* fallback that creates a default department is never taken.              *)
(*                                                                         *)
(* Spec    : every HTTP handler runs to completion before the next one     *)
(*           starts (one action per handler).                              *)
(* ConcSpec: the same handlers, cut at their database statements, run      *)
(*           interleaved by two workers for one employee within one day.   *)
(*           The project opens no transaction and takes no row lock, so    *)
(*           each ORM statement commits on its own.                        *)
(* FailSpec: Spec, and a statement of a service function may raise.        *)
(* CallSpec: Spec without the clock, and the eligibility check and the     *)
(*           entitlement summary called directly; the response holds the   *)
(*           call's arguments and what it returned.                        *)
(* ViewSpec: the request views posted to by any account: submit, edit     *)
(*           through the update form, approve / reject, cancel.            *)
(* CarrySpec: entitlement records created and edited, and the year-end    *)
(*           carry-over command, beside submit and approve.                *)
(* DurationSpec: the duration calculator called on every range of a        *)
(*           calendar of MaxCalDay days, for every holiday table of        *)
(*           HolidayCalendars, and the submission of half-day requests.    *)
(***************************************************************************)
EXTENDS Integers, Sequences, FiniteSets, TLC

\* ------------------------------------------------------------------ bounds
MaxReq == 2
MaxDay == 3
MaxHist == 1
MaxCalDay == 8

\* ------------------------------------------------------- program constants
\* EmployeeEntitlement.annual_holiday_entitlement default=25.0 (in days)
DefaultAnnual == 25

\* ---------------------------------------------------------------- domains
Days(n) == 2 * n

Dates == 1..MaxDay

\* date.weekday(): Monday = 0 .. Sunday = 6.  Day 1 is a Monday.
weekday(d) == (d - 1) % 7

\* date.year: days 1..3 lie in year 1, later days in year 2.
year(d) == IF d <= 3 THEN 1 ELSE 2

Years == {0} \cup {year(d) : d \in Dates}

Users == {"alice", "bob"}

\* the accounts that post to approve_leave_ajax in the checked configurations
Managers == {"bob"}

\* the accounts with is_staff or is_superuser set
Staff == {"bob"}

None == "None"

\* LeaveType rows.  AL counts against the allowance, UL does not; these two
\* are the whole-day types of the lifecycle configurations.
LeaveTypes == {"AL", "UL"}

\* the half-day code of the legend (is_half_day = True)
HalfDayTypes == {"AL.5"}

affects_entitlement(t) == t \in {"AL", "AL.5"}

is_half_day(t) == t \in HalfDayTypes

STATUS_CHOICES == {"PENDING", "APPROVED", "REJECTED", "CANCELLED"}

\* request.POST texts, as sequences of tokens; " " is whitespace.
ReasonInputs == {<< >>, <<" ">>, <<" ", "no">>}

CancelledByUser == <<"Cancelled by user">>

RECURSIVE strip(_)
strip(s) ==
    IF s = << >> THEN s
    ELSE IF Head(s) = " " THEN strip(Tail(s))
    ELSE IF s[Len(s)] = " " THEN strip(SubSeq(s, 1, Len(s) - 1))
    ELSE s

VARIABLES
    requests,      \* LeaveRequest table: row pk is requests[pk]
    history,       \* LeaveStatusHistory table, in insertion order
    balances,      \* LeaveBalance table, keyed (employee, leave_type, year)
    entitlements,  \* EmployeeEntitlement table, keyed (employee, year)
    holidays,      \* HolidayCalendar table: set of [date, is_active]
    today,         \* timezone.now().date()
    response,      \* the last handler's response
    pc,            \* ConcSpec: each worker's position in its handler
    ctx            \* ConcSpec: each worker's in-memory objects

vars == <<requests, history, balances, entitlements, holidays, today, response, pc, ctx>>

dbvars == <<requests, history, balances, entitlements, holidays>>


\* ------------------------------------------------------------ table rows
NoRow == [exists |-> FALSE]

Pks == 1..Len(requests)

\* QuerySet.aggregate(Sum('duration_days'))['total'] or 0 over the rows of
\* reqs whose pk is in S
RECURSIVE SumDuration(_, _)
SumDuration(reqs, S) ==
    IF S = {} THEN 0
    ELSE LET pk == CHOOSE x \in S : TRUE
         IN reqs[pk].duration_days + SumDuration(reqs, S \ {pk})

\* ------------------------------------------------- models.py: LeaveRequest
\* LeaveRequest.calculate_duration: weekdays Saturday/Sunday skipped,
\* holidays not consulted, 0.5 per day for a half-day type.
RECURSIVE calculate_duration_from(_, _, _)
calculate_duration_from(current_date, end_date, leave_type) ==
    IF current_date > end_date THEN 0
    ELSE (IF weekday(current_date) \notin {5, 6}
          THEN (IF is_half_day(leave_type) THEN 1 ELSE Days(1))
          ELSE 0)
         + calculate_duration_from(current_date + 1, end_date, leave_type)

calculate_duration(obj) ==
    calculate_duration_from(obj.start_date, obj.end_date, obj.leave_type)

\* LeaveRequest.save: duration auto-calculated when falsy (None or 0); the
\* row written holds every field of the in-memory object.
ModelSave(obj) ==
    IF obj.duration_days = 0
    THEN [obj EXCEPT !.duration_days = calculate_duration(obj)]
    ELSE obj

is_future(obj, now) == obj.start_date > now

\* mutant: an approved leave stays cancellable after it has started
can_be_cancelled_any_approved(obj, now) ==
    obj.status = "PENDING" \/ obj.status = "APPROVED"

can_be_cancelled(obj, now) ==
    obj.status = "PENDING" \/ (obj.status = "APPROVED" /\ is_future(obj, now))

\* -------------------------------------- services.py: duration calculator
RECURSIVE leave_duration_from(_, _, _)
leave_duration_from(current_date, end_date, hol) ==
    IF current_date > end_date THEN 0
    ELSE (IF weekday(current_date) \in {5, 6} THEN 0
          ELSE IF current_date \in hol THEN 0
          ELSE Days(1))
         + leave_duration_from(current_date + 1, end_date, hol)

\* mutant: the day count taken by subtraction, without the test
\* start_date > end_date
calculate_leave_duration_unguarded(start_date, end_date, hols) ==
    Days(end_date - start_date + 1)
    - Days(Cardinality({d \in start_date..end_date :
               \/ weekday(d) \in {5, 6}
               \/ \E h \in hols : h.is_active /\ h.date = d}))

\* mutant: the holiday query without is_active=True
calculate_leave_duration_any_holiday(start_date, end_date, hols) ==
    IF start_date > end_date THEN 0
    ELSE leave_duration_from(
             start_date, end_date,
             {h.date : h \in {x \in hols : x.date >= start_date /\ x.date <= end_date}})

\* calculate_leave_duration with both exclusion flags at their default
calculate_leave_duration(start_date, end_date, hols) ==
    IF start_date > end_date THEN 0
    ELSE leave_duration_from(
             start_date, end_date,
             {h.date : h \in {x \in hols : x.is_active
                              /\ x.date >= start_date /\ x.date <= end_date}})

\* ------------------------------------------ models.py: EmployeeEntitlement
total_available_days(ent) ==
    ent.annual_holiday_entitlement + ent.days_carried_over + ent.time_in_lieu

\* EmployeeEntitlement.days_taken: APPROVED durations of the year
days_taken(reqs, employee, y) ==
    SumDuration(reqs, {pk \in 1..Len(reqs) :
        /\ reqs[pk].employee = employee
        /\ year(reqs[pk].start_date) = y
        /\ reqs[pk].status = "APPROVED"})

Max(a, b) == IF a >= b THEN a ELSE b

calculate_unused_days_from_previous_year(ents, reqs, employee, y) ==
    IF (y - 1) \in Years /\ ents[employee][y - 1].exists
    THEN Max(0, ents[employee][y - 1].annual_holiday_entitlement
                - days_taken(reqs, employee, y - 1))
    ELSE 0

\* EmployeeEntitlement.objects.create(employee, department, year): field
\* defaults, then save() fills days_carried_over of the new record.
NewEntitlement(ents, reqs, employee, y) ==
    [exists |-> TRUE,
     annual_holiday_entitlement |-> Days(DefaultAnnual),
     days_carried_over |-> calculate_unused_days_from_previous_year(ents, reqs, employee, y),
     time_in_lieu |-> 0]

\* ------------------------------------ services.py: entitlement summary
\* The entitlement table after get_employee_leave_summary (lazy creation)
SummaryEntitlements(ents, reqs, employee, y) ==
    IF ents[employee][y].exists THEN ents
    ELSE [ents EXCEPT ![employee][y] = NewEntitlement(ents, reqs, employee, y)]

\* An entitlement read with objects.get holds Decimal fields; one made by
\* objects.create keeps the float defaults (25.0, 0.0) it was built with, so
\* in the call that creates it total_available_days is a float (or float +
\* Decimal when a carry-over was set) and "total_available_days -
\* approved_days" is float - Decimal: TypeError, after the row was inserted.
SummaryRaises(ents, employee, y) == ~ents[employee][y].exists

\* EmployeeEntitlement.remaining_entitlement
remaining_entitlement(ent, reqs, employee, y) ==
    total_available_days(ent) - days_taken(reqs, employee, y)

\* mutant: the request query without start_date__year=year
StatusDaysAnyYear(reqs, employee, y, status) ==
    SumDuration(reqs, {pk \in 1..Len(reqs) :
        /\ reqs[pk].employee = employee
        /\ reqs[pk].status = status})

\* mutant: only requests of entitlement-affecting types are summed
StatusDaysEntitlementOnly(reqs, employee, y, status) ==
    SumDuration(reqs, {pk \in 1..Len(reqs) :
        /\ reqs[pk].employee = employee
        /\ year(reqs[pk].start_date) = y
        /\ affects_entitlement(reqs[pk].leave_type)
        /\ reqs[pk].status = status})

StatusDays(reqs, employee, y, status) ==
    SumDuration(reqs, {pk \in 1..Len(reqs) :
        /\ reqs[pk].employee = employee
        /\ year(reqs[pk].start_date) = y
        /\ reqs[pk].status = status})

\* mutant: remaining_days without the approved days
get_employee_leave_summary_pending_only(ents, reqs, employee, y) ==
    LET entitlement == SummaryEntitlements(ents, reqs, employee, y)[employee][y]
        approved_days == StatusDays(reqs, employee, y, "APPROVED")
        pending_days == StatusDays(reqs, employee, y, "PENDING")
    IN [total_available |-> total_available_days(entitlement),
        approved_days |-> approved_days,
        pending_days |-> pending_days,
        remaining_days |-> total_available_days(entitlement) - pending_days]

get_employee_leave_summary(ents, reqs, employee, y) ==
    LET entitlement == SummaryEntitlements(ents, reqs, employee, y)[employee][y]
        approved_days == StatusDays(reqs, employee, y, "APPROVED")
        pending_days == StatusDays(reqs, employee, y, "PENDING")
    IN [total_available |-> total_available_days(entitlement),
        approved_days |-> approved_days,
        pending_days |-> pending_days,
        remaining_days |-> total_available_days(entitlement) - approved_days - pending_days]

\* ------------------------------------- services.py: eligibility checker
\* mutant: __lt / __gt in place of __lte / __gte
OverlapsExclusive(r, start_date, end_date) ==
    r.start_date < end_date /\ r.end_date > start_date

\* the filter start_date__lte=end_date, end_date__gte=start_date
Overlaps(r, start_date, end_date) ==
    r.start_date <= end_date /\ r.end_date >= start_date

\* mutant: the overlap query without status__in=['PENDING', 'APPROVED']
overlapping_any_status(reqs, employee, start_date, end_date) ==
    {pk \in 1..Len(reqs) :
        /\ reqs[pk].employee = employee
        /\ Overlaps(reqs[pk], start_date, end_date)}

overlapping(reqs, employee, start_date, end_date) ==
    {pk \in 1..Len(reqs) :
        /\ reqs[pk].employee = employee
        /\ reqs[pk].status \in {"PENDING", "APPROVED"}
        /\ Overlaps(reqs[pk], start_date, end_date)}

\* mutant: a request that uses up the remaining days exactly is refused
InsufficientBalanceAtLimit(duration_days, summary) ==
    duration_days >= summary.remaining_days

\* if duration_days > summary['remaining_days']
InsufficientBalance(duration_days, summary) ==
    duration_days > summary.remaining_days

check_leave_eligibility(ents, reqs, hols, now, employee, leave_type, start_date, end_date) ==
    LET duration_days == calculate_leave_duration(start_date, end_date, hols)
        e1 == IF start_date > end_date THEN <<"date_order">> ELSE << >>
        w1 == IF start_date <= now THEN <<"past_or_current">> ELSE << >>
        e2 == IF overlapping(reqs, employee, start_date, end_date) # {}
              THEN <<"overlap">> ELSE << >>
        e3 == IF affects_entitlement(leave_type)
                 /\ InsufficientBalance(
                        duration_days,
                        get_employee_leave_summary(ents, reqs, employee, year(start_date)))
              THEN <<"insufficient_balance">> ELSE << >>
        errors == e1 \o e2 \o e3
    IN [eligible |-> Len(errors) = 0,
        errors |-> errors,
        warnings |-> w1,
        calculated_duration |-> duration_days]

\* check_leave_eligibility raises what its summary call raises
EligibilityRaises(ents, employee, leave_type, start_date) ==
    affects_entitlement(leave_type) /\ SummaryRaises(ents, employee, year(start_date))

\* the entitlement table after check_leave_eligibility
EligibilityEntitlements(ents, reqs, employee, leave_type, start_date) ==
    IF affects_entitlement(leave_type)
    THEN SummaryEntitlements(ents, reqs, employee, year(start_date))
    ELSE ents

\* ------------------------------------- services.py: balance aggregator
TypeStatusDays(reqs, employee, leave_type, y, status) ==
    SumDuration(reqs, {pk \in 1..Len(reqs) :
        /\ reqs[pk].employee = employee
        /\ reqs[pk].leave_type = leave_type
        /\ year(reqs[pk].start_date) = y
        /\ reqs[pk].status = status})

\* update_leave_balance: get_or_create, then both sums recomputed
update_leave_balance(bals, reqs, employee, leave_type, y) ==
    [bals EXCEPT ![employee][leave_type][y] =
        [exists |-> TRUE,
         allocated_days |-> IF @.exists THEN @.allocated_days ELSE 0,
         used_days |-> TypeStatusDays(reqs, employee, leave_type, y, "APPROVED"),
         pending_days |-> TypeStatusDays(reqs, employee, leave_type, y, "PENDING")]]


\* --------------------------------------------------------- initial state
Workers == {"w1", "w2"}

Idle == [op |-> "none"]

Init ==
    /\ requests = << >>
    /\ history = << >>
    /\ balances = [e \in Users |-> [t \in LeaveTypes \cup HalfDayTypes |-> [y \in Years |-> NoRow]]]
    /\ entitlements =
           [e \in Users |-> [y \in Years |->
               IF e = "alice" /\ y = 1
               THEN [exists |-> TRUE, annual_holiday_entitlement |-> Days(2),
                     days_carried_over |-> 0, time_in_lieu |-> 0]
               ELSE NoRow]]
    /\ holidays = {[date |-> 2, is_active |-> TRUE]}
    /\ today = 1
    /\ response = [handler |-> "none", success |-> TRUE]
    /\ pc = [w \in Workers |-> "idle"]
    /\ ctx = [w \in Workers |-> Idle]

\* JsonResponse({'success': ...}) / form re-rendered with errors
Result(handler, err) == [handler |-> handler, success |-> err = ""]

\* --------------------------------------------- forms.py: LeaveRequestForm
\* LeaveRequestForm.clean: "" when the form is valid, "TypeError" when the
\* eligibility check raises, else the first validation error
FormError(ents, reqs, hols, now, employee, leave_type, start_date, end_date) ==
    IF weekday(start_date) \in {4, 5} THEN "start_date on weekend"
    ELSE IF weekday(end_date) \in {4, 5} THEN "end_date on weekend"
    ELSE IF start_date > end_date THEN "end_date before start_date"
    ELSE IF EligibilityRaises(ents, employee, leave_type, start_date) THEN "TypeError"
    ELSE LET eligibility == check_leave_eligibility(
                 ents, reqs, hols, now, employee, leave_type, start_date, end_date)
         IN IF ~eligibility.eligible THEN eligibility.errors[1] ELSE ""

\* the entitlement table after LeaveRequestForm.clean: the eligibility check
\* runs only when the three field checks passed
FormEntitlements(ents, reqs, employee, leave_type, start_date, end_date) ==
    IF weekday(start_date) \in {4, 5} \/ weekday(end_date) \in {4, 5}
       \/ start_date > end_date
    THEN ents
    ELSE EligibilityEntitlements(ents, reqs, employee, leave_type, start_date)

\* LeaveRequestCreateView.get_context_data, reached when the form is
\* re-rendered with validation errors: the summary of the current year
RenderEntitlements(ents, reqs, user, now) ==
    SummaryEntitlements(ents, reqs, user, year(now))

\* the entitlement table after LeaveRequestCreateView.post
PostEntitlements(ents, reqs, now, err, employee, leave_type, start_date, end_date) ==
    LET cleaned == FormEntitlements(ents, reqs, employee, leave_type, start_date, end_date)
    IN IF err \in {"", "TypeError"} THEN cleaned
       ELSE RenderEntitlements(cleaned, reqs, employee, now)

\* LeaveRequestForm.save(commit=False): the instance handed to instance.save()
FormInstance(hols, employee, leave_type, start_date, end_date) ==
    [employee |-> employee,
     leave_type |-> leave_type,
     start_date |-> start_date,
     end_date |-> end_date,
     duration_days |-> calculate_leave_duration(start_date, end_date, hols),
     status |-> "PENDING",
     approved_by |-> None,
     rejection_reason |-> << >>]

\* ------------------------------------------ services.py: status changes
\* mutant: the row written after the status assignment
HistoryRowAfter(pk, obj, new_status, changed_by, reason) ==
    [leave_request |-> pk,
     previous_status |-> new_status,
     new_status |-> new_status,
     changed_by |-> changed_by,
     reason |-> reason]

HistoryRow(pk, obj, new_status, changed_by, reason) ==
    [leave_request |-> pk,
     previous_status |-> obj.status,
     new_status |-> new_status,
     changed_by |-> changed_by,
     reason |-> reason]

NewStatus(op) ==
    CASE op = "approve" -> "APPROVED"
      [] op = "reject" -> "REJECTED"
      [] op = "cancel" -> "CANCELLED"

\* mutant: approve records the approver and leaves the status alone
ChangedWithoutStatus(op, obj, user, reason) ==
    CASE op = "approve" -> [obj EXCEPT !.approved_by = user]
      [] op = "reject" -> [obj EXCEPT !.status = "REJECTED", !.rejection_reason = reason]
      [] op = "cancel" -> [obj EXCEPT !.status = "CANCELLED"]

\* the in-memory leave_request after the service's assignments
Changed(op, obj, user, reason) ==
    CASE op = "approve" -> [obj EXCEPT !.status = "APPROVED", !.approved_by = user]
      [] op = "reject" -> [obj EXCEPT !.status = "REJECTED", !.rejection_reason = reason]
      [] op = "cancel" -> [obj EXCEPT !.status = "CANCELLED"]

\* whether the service function ends with update_leave_balance: approve
\* always, cancel always (its status test is true after the assignment),
\* reject never
Recomputes(op) == op \in {"approve", "cancel"}

\* the three statements of approve_ / reject_ / cancel_leave_request
StmtHistory(hist, op, pk, obj, user, reason) ==
    Append(hist, HistoryRow(pk, obj, NewStatus(op), user, reason))

StmtSave(reqs, op, pk, obj, user, reason) ==
    [reqs EXCEPT ![pk] = ModelSave(Changed(op, obj, user, reason))]

StmtBalance(bals, reqs, op, obj) ==
    IF Recomputes(op)
    THEN update_leave_balance(bals, reqs, obj.employee, obj.leave_type, year(obj.start_date))
    ELSE bals

\* ------------------------------------------------ views.py (Spec actions)
\* LeaveRequestCreateView.post: form.is_valid(), form.save()
Submit(employee, leave_type, start_date, end_date) ==
    /\ Len(requests) < MaxReq
    /\ LET err == FormError(entitlements, requests, holidays, today,
                            employee, leave_type, start_date, end_date)
       IN /\ entitlements' = PostEntitlements(entitlements, requests, today, err,
                                              employee, leave_type, start_date, end_date)
          /\ requests' = IF err = ""
                         THEN Append(requests, ModelSave(FormInstance(
                                  holidays, employee, leave_type, start_date, end_date)))
                         ELSE requests
          /\ response' = Result("create", err)
    /\ UNCHANGED <<history, balances, holidays, today, pc, ctx>>

\* mutant: the view without its status test
ApproveGuardNone(obj) == TRUE

\* approve_leave_ajax: if leave_request.status != 'PENDING': return error
ApproveGuard(obj) == obj.status = "PENDING"

\* mutant: the view without its reason test
ReasonOptional(action, reason) == FALSE

\* approve_leave_ajax: if action == 'reject' and not reason: return error
ReasonMissing(action, reason) == action = "reject" /\ reason = << >>

\* approve_leave_ajax up to the service call: "" or the error returned
ApproveViewError(reqs, pk, action, reason) ==
    IF pk \notin 1..Len(reqs) THEN "404"
    ELSE IF ~ApproveGuard(reqs[pk]) THEN "Request is not pending"
    ELSE IF action \notin {"approve", "reject"} THEN "Invalid action"
    ELSE IF ReasonMissing(action, reason) THEN "Rejection reason is required"
    ELSE ""

\* cancel_leave_ajax up to the service call
CancelViewError(reqs, now, user, pk) ==
    IF pk \notin 1..Len(reqs) THEN "404"
    ELSE IF user # reqs[pk].employee THEN "Permission denied"
    ELSE IF ~can_be_cancelled(reqs[pk], now) THEN "Cannot cancel this request"
    ELSE ""

\* a handler that passed its view checks and runs its service function on
\* the object it loaded
RunService(op, pk, user, reason) ==
    LET obj == requests[pk]
        reqs1 == StmtSave(requests, op, pk, obj, user, reason)
    IN /\ history' = StmtHistory(history, op, pk, obj, user, reason)
       /\ requests' = reqs1
       /\ balances' = StmtBalance(balances, reqs1, op, obj)

ApproveLeaveAjax(user, pk, action, reason_input) ==
    /\ LET reason == strip(reason_input)
           err == ApproveViewError(requests, pk, action, reason)
       IN /\ response' = Result("approve", err)
          /\ IF err # ""
             THEN UNCHANGED <<requests, history, balances>>
             ELSE RunService(action, pk, user, reason)
    /\ UNCHANGED <<entitlements, holidays, today, pc, ctx>>

CancelLeaveAjax(user, pk) ==
    /\ LET err == CancelViewError(requests, today, user, pk)
       IN /\ response' = Result("cancel", err)
          /\ IF err # ""
             THEN UNCHANGED <<requests, history, balances>>
             ELSE RunService("cancel", pk, user, CancelledByUser)
    /\ UNCHANGED <<entitlements, holidays, today, pc, ctx>>

\* the clock: timezone.now().date() moves to the next day
Tick ==
    /\ today < MaxDay
    /\ today' = today + 1
    /\ UNCHANGED <<dbvars, response, pc, ctx>>

Actions == {"approve", "reject", "delete"}

Next ==
    \/ \E e \in Users, t \in LeaveTypes, s \in Dates, d \in Dates : Submit(e, t, s, d)
    \/ \E u \in Managers, pk \in 1..MaxReq, a \in Actions, r \in ReasonInputs :
           ApproveLeaveAjax(u, pk, a, r)
    \/ \E u \in Users, pk \in 1..MaxReq : CancelLeaveAjax(u, pk)
    \/ Tick

Spec == Init /\ [][Next]_vars

\* ------------------------------------------ a raising statement (FailSpec)
\* leave_request.save() (at = "save") or update_leave_balance (at = "balance")
\* raises, for instance on a lost database connection: the view's except
\* clause answers success=False and nothing is rolled back, every statement
\* before the raising one having committed on its own.
ServiceRaises(handler, op, pk, user, reason, at) ==
    LET obj == requests[pk]
    IN /\ at = "balance" => Recomputes(op)
       /\ Len(history) < MaxHist
       /\ history' = StmtHistory(history, op, pk, obj, user, reason)
       /\ requests' = IF at = "save" THEN requests
                      ELSE StmtSave(requests, op, pk, obj, user, reason)
       /\ response' = Result(handler, "exception")
       /\ UNCHANGED <<balances, entitlements, holidays, today, pc, ctx>>

ApproveLeaveAjaxRaises(user, pk, action, reason_input, at) ==
    /\ ApproveViewError(requests, pk, action, strip(reason_input)) = ""
    /\ ServiceRaises("approve", action, pk, user, strip(reason_input), at)

CancelLeaveAjaxRaises(user, pk, at) ==
    /\ CancelViewError(requests, today, user, pk) = ""
    /\ ServiceRaises("cancel", "cancel", pk, user, CancelledByUser, at)

RaisingStatements == {"save", "balance"}

\* the configuration of FailSpec and ConcSpec: one employee, one leave type
ConcUsers == {"alice"}

ConcTypes == {"AL"}

FailNext ==
    \/ \E e \in ConcUsers, t \in ConcTypes, s \in Dates, d \in Dates : Submit(e, t, s, d)
    \/ \E u \in Managers, pk \in 1..MaxReq, a \in Actions, r \in ReasonInputs :
           ApproveLeaveAjax(u, pk, a, r)
    \/ \E u \in ConcUsers, pk \in 1..MaxReq : CancelLeaveAjax(u, pk)
    \/ Tick
    \/ \E u \in Managers, pk \in 1..MaxReq, a \in Actions, r \in ReasonInputs,
          at \in RaisingStatements : ApproveLeaveAjaxRaises(u, pk, a, r, at)
    \/ \E u \in ConcUsers, pk \in 1..MaxReq, at \in RaisingStatements :
           CancelLeaveAjaxRaises(u, pk, at)

FailSpec == Init /\ [][FailNext]_vars


\* ------------------------------------------- views.py (ConcSpec actions)
\* Each handler is cut at its database statements.  A worker keeps the
\* objects it loaded in ctx; another worker's statements may run in between.
Goto(w, label, c) ==
    /\ pc' = [pc EXCEPT ![w] = label]
    /\ ctx' = [ctx EXCEPT ![w] = c]

Inserting == {w \in Workers : pc[w] = "insert"}

\* LeaveRequestCreateView.post, first half: form.is_valid()
BeginSubmit(w, employee, leave_type, start_date, end_date) ==
    /\ pc[w] = "idle"
    /\ Len(requests) + Cardinality(Inserting) < MaxReq
    /\ LET err == FormError(entitlements, requests, holidays, today,
                            employee, leave_type, start_date, end_date)
       IN /\ entitlements' = PostEntitlements(entitlements, requests, today, err,
                                              employee, leave_type, start_date, end_date)
          /\ IF err = ""
             THEN /\ Goto(w, "insert", [op |-> "create", obj |-> FormInstance(
                           holidays, employee, leave_type, start_date, end_date)])
                  /\ UNCHANGED response
             ELSE /\ response' = Result("create", err)
                  /\ UNCHANGED <<pc, ctx>>
    /\ UNCHANGED <<requests, history, balances, holidays, today>>

\* LeaveRequestCreateView.post, second half: form.save()
DoInsert(w) ==
    /\ pc[w] = "insert"
    /\ requests' = Append(requests, ModelSave(ctx[w].obj))
    /\ response' = Result("create", "")
    /\ Goto(w, "idle", Idle)
    /\ UNCHANGED <<history, balances, entitlements, holidays, today>>

\* approve_leave_ajax from get_object_or_404 to the service call
BeginApprove(w, user, pk, action, reason_input) ==
    /\ pc[w] = "idle"
    /\ LET reason == strip(reason_input)
           err == ApproveViewError(requests, pk, action, reason)
       IN IF err = ""
          THEN /\ Goto(w, "history", [op |-> action, pk |-> pk, obj |-> requests[pk],
                                      user |-> user, reason |-> reason])
               /\ UNCHANGED response
          ELSE /\ response' = Result("approve", err)
               /\ UNCHANGED <<pc, ctx>>
    /\ UNCHANGED <<dbvars, today>>

\* cancel_leave_ajax from get_object_or_404 to the service call
BeginCancel(w, user, pk) ==
    /\ pc[w] = "idle"
    /\ LET err == CancelViewError(requests, today, user, pk)
       IN IF err = ""
          THEN /\ Goto(w, "history", [op |-> "cancel", pk |-> pk, obj |-> requests[pk],
                                      user |-> user, reason |-> CancelledByUser])
               /\ UNCHANGED response
          ELSE /\ response' = Result("cancel", err)
               /\ UNCHANGED <<pc, ctx>>
    /\ UNCHANGED <<dbvars, today>>

\* the service function's first statement; cancel_leave_request first tests
\* can_be_cancelled on the loaded object and raises ValueError
DoHistory(w) ==
    /\ pc[w] = "history"
    /\ LET c == ctx[w]
       IN IF c.op = "cancel" /\ ~can_be_cancelled(c.obj, today)
          THEN /\ response' = Result("cancel", "ValueError")
               /\ Goto(w, "idle", Idle)
               /\ UNCHANGED history
          ELSE /\ history' = StmtHistory(history, c.op, c.pk, c.obj, c.user, c.reason)
               /\ Goto(w, "save", c)
               /\ UNCHANGED response
    /\ UNCHANGED <<requests, balances, entitlements, holidays, today>>

\* leave_request.save(): every column of the row is written from the
\* loaded object
DoSave(w) ==
    /\ pc[w] = "save"
    /\ LET c == ctx[w]
       IN /\ requests' = StmtSave(requests, c.op, c.pk, c.obj, c.user, c.reason)
          /\ IF Recomputes(c.op)
             THEN /\ Goto(w, "balance", c)
                  /\ UNCHANGED response
             ELSE /\ Goto(w, "idle", Idle)
                  /\ response' = Result("approve", "")
    /\ UNCHANGED <<history, balances, entitlements, holidays, today>>

DoBalance(w) ==
    /\ pc[w] = "balance"
    /\ balances' = StmtBalance(balances, requests, ctx[w].op, ctx[w].obj)
    /\ response' = Result(IF ctx[w].op = "cancel" THEN "cancel" ELSE "approve", "")
    /\ Goto(w, "idle", Idle)
    /\ UNCHANGED <<requests, history, entitlements, holidays, today>>

ConcDates == 1..(MaxDay - 1)

ConcReasons == {<<" ", "no">>}

ConcNext ==
    \/ \E w \in Workers, e \in ConcUsers, t \in ConcTypes, s \in ConcDates, d \in ConcDates :
           BeginSubmit(w, e, t, s, d)
    \/ \E w \in Workers : DoInsert(w)
    \/ \E w \in Workers, u \in Managers, pk \in 1..MaxReq, a \in Actions, r \in ConcReasons :
           BeginApprove(w, u, pk, a, r)
    \/ \E w \in Workers, u \in ConcUsers, pk \in 1..MaxReq : BeginCancel(w, u, pk)
    \/ \E w \in Workers : DoHistory(w)
    \/ \E w \in Workers : DoSave(w)
    \/ \E w \in Workers : DoBalance(w)

ConcSpec == Init /\ [][ConcNext]_vars


\* ---------------------------------------- the service calls (CallSpec)
\* LeaveCalculationService.check_leave_eligibility(employee, leave_type,
\* start_date, end_date): the value returned, or the exception raised
CheckLeaveEligibility(employee, leave_type, start_date, end_date) ==
    /\ entitlements' = EligibilityEntitlements(entitlements, requests, employee,
                                               leave_type, start_date)
    /\ response' =
           IF EligibilityRaises(entitlements, employee, leave_type, start_date)
           THEN [handler |-> "check_leave_eligibility", success |-> FALSE,
                 employee |-> employee, leave_type |-> leave_type,
                 start_date |-> start_date, end_date |-> end_date]
           ELSE [handler |-> "check_leave_eligibility", success |-> TRUE,
                 employee |-> employee, leave_type |-> leave_type,
                 start_date |-> start_date, end_date |-> end_date,
                 result |-> check_leave_eligibility(entitlements, requests, holidays, today,
                                                   employee, leave_type, start_date, end_date)]
    /\ UNCHANGED <<requests, history, balances, holidays, today, pc, ctx>>

\* LeaveCalculationService.get_employee_leave_summary(employee, year)
GetEmployeeLeaveSummary(employee, y) ==
    /\ entitlements' = SummaryEntitlements(entitlements, requests, employee, y)
    /\ response' =
           IF SummaryRaises(entitlements, employee, y)
           THEN [handler |-> "get_employee_leave_summary", success |-> FALSE,
                 employee |-> employee, year |-> y]
           ELSE [handler |-> "get_employee_leave_summary", success |-> TRUE,
                 employee |-> employee, year |-> y,
                 result |-> get_employee_leave_summary(entitlements, requests, employee, y)]
    /\ UNCHANGED <<requests, history, balances, holidays, today, pc, ctx>>

CallNext ==
    \/ \E e \in Users, t \in LeaveTypes, s \in ConcDates, d \in ConcDates : Submit(e, t, s, d)
    \/ \E u \in Managers, pk \in 1..MaxReq, a \in Actions, r \in ConcReasons :
           ApproveLeaveAjax(u, pk, a, r)
    \/ \E u \in Users, pk \in 1..MaxReq : CancelLeaveAjax(u, pk)
    \/ \E e \in ConcUsers, t \in LeaveTypes, s \in Dates, d \in Dates :
           CheckLeaveEligibility(e, t, s, d)
    \/ \E e \in ConcUsers, y \in Years : GetEmployeeLeaveSummary(e, y)

CallSpec == Init /\ [][CallNext]_vars

\* ------------------------------------------ the calculator (DurationSpec)
CalDates == 1..MaxCalDay

\* the dates that carry a HolidayCalendar row: a Tuesday, a Wednesday and a
\* Saturday
HolidayDates == {2, 3, 6}

\* HolidayCalendar tables: date is unique, is_active either way
HolidayCalendars ==
    {h \in SUBSET [date : HolidayDates, is_active : BOOLEAN] :
        \A x \in h, z \in h : x.date = z.date => x = z}

DurationInit ==
    /\ requests = << >>
    /\ history = << >>
    /\ balances = [e \in Users |-> [t \in LeaveTypes \cup HalfDayTypes |-> [y \in Years |-> NoRow]]]
    /\ entitlements =
           [e \in Users |-> [y \in Years |->
               IF e = "alice" /\ y = 1
               THEN [exists |-> TRUE, annual_holiday_entitlement |-> Days(2),
                     days_carried_over |-> 0, time_in_lieu |-> 0]
               ELSE NoRow]]
    /\ holidays \in HolidayCalendars
    /\ today = 1
    /\ response = [handler |-> "none", success |-> TRUE]
    /\ pc = [w \in Workers |-> "idle"]
    /\ ctx = [w \in Workers |-> Idle]

\* LeaveCalculationService.calculate_leave_duration(start_date, end_date)
\* called with the default flags; the response is the value returned
CalculateLeaveDuration(start_date, end_date) ==
    /\ response' = [handler |-> "calculate_leave_duration", success |-> TRUE,
                    start_date |-> start_date, end_date |-> end_date,
                    duration |-> calculate_leave_duration(start_date, end_date, holidays)]
    /\ UNCHANGED <<dbvars, today, pc, ctx>>

DurationNext ==
    \/ \E s \in CalDates, d \in CalDates : CalculateLeaveDuration(s, d)
    \/ \E e \in ConcUsers, t \in HalfDayTypes, s \in Dates, d \in Dates : Submit(e, t, s, d)

DurationSpec == DurationInit /\ [][DurationNext]_vars


\* ------------------------------------------------ views.py (ViewSpec)
\* LeaveRequest.clean, run by the model form on the instance being edited:
\* "" or the validation error
clean(reqs, pk, obj) ==
    IF obj.start_date > obj.end_date THEN "Start date cannot be after end date"
    ELSE IF overlapping(reqs, obj.employee, obj.start_date, obj.end_date) \ {pk} # {}
         THEN "overlap"
    ELSE ""

\* LeaveRequestUpdateView.get_queryset: the user's own PENDING requests
UpdateViewError(reqs, user, pk) ==
    IF pk \notin 1..Len(reqs) THEN "404"
    ELSE IF reqs[pk].employee # user \/ reqs[pk].status # "PENDING" THEN "404"
    ELSE ""

\* the instance LeaveRequestForm.save hands to instance.save() on an edit
EditedInstance(hols, obj, leave_type, start_date, end_date) ==
    [obj EXCEPT !.leave_type = leave_type,
                !.start_date = start_date,
                !.end_date = end_date,
                !.duration_days = calculate_leave_duration(start_date, end_date, hols)]

\* LeaveRequestUpdateView.post: form.is_valid() (LeaveRequestForm.clean, then
\* the instance's clean), form.save()
UpdateLeaveRequest(user, pk, leave_type, start_date, end_date) ==
    /\ LET found == UpdateViewError(requests, user, pk)
           formerr == FormError(entitlements, requests, holidays, today,
                                user, leave_type, start_date, end_date)
           err == IF found # "" THEN found
                  ELSE IF formerr # "" THEN formerr
                  ELSE clean(requests, pk, EditedInstance(holidays, requests[pk], leave_type,
                                                         start_date, end_date))
       IN /\ entitlements' = IF found # "" THEN entitlements
                             ELSE PostEntitlements(entitlements, requests, today, err,
                                                   user, leave_type, start_date, end_date)
          /\ requests' = IF err = ""
                         THEN [requests EXCEPT ![pk] = ModelSave(EditedInstance(
                                  holidays, requests[pk], leave_type, start_date, end_date))]
                         ELSE requests
          /\ response' = Result("update", err)
    /\ UNCHANGED <<history, balances, holidays, today, pc, ctx>>

\* annual_holiday_entitlement values of the seeded entitlement
SeededAnnual == {Days(1), Days(2)}

ViewInit ==
    /\ requests = << >>
    /\ history = << >>
    /\ balances = [e \in Users |-> [t \in LeaveTypes \cup HalfDayTypes |-> [y \in Years |-> NoRow]]]
    /\ \E annual \in SeededAnnual :
           entitlements =
               [e \in Users |-> [y \in Years |->
                   IF e = "alice" /\ y = 1
                   THEN [exists |-> TRUE, annual_holiday_entitlement |-> annual,
                         days_carried_over |-> 0, time_in_lieu |-> 0]
                   ELSE NoRow]]
    /\ holidays = {[date |-> 2, is_active |-> TRUE]}
    /\ today = 1
    /\ response = [handler |-> "none", success |-> TRUE]
    /\ pc = [w \in Workers |-> "idle"]
    /\ ctx = [w \in Workers |-> Idle]

ViewNext ==
    \/ \E e \in ConcUsers, t \in ConcTypes, s \in Dates, d \in Dates : Submit(e, t, s, d)
    \/ \E u \in Users, pk \in 1..MaxReq, t \in ConcTypes, s \in Dates, d \in Dates :
           UpdateLeaveRequest(u, pk, t, s, d)
    \/ \E u \in Users, pk \in 1..MaxReq, a \in Actions, r \in ConcReasons :
           ApproveLeaveAjax(u, pk, a, r)
    \/ \E u \in Users, pk \in 1..MaxReq : CancelLeaveAjax(u, pk)

ViewSpec == ViewInit /\ [][ViewNext]_vars


\* ------------------------------------ entitlements and carry-over (CarrySpec)
\* years of the entitlement table: the years of the requests and the next
CarryYears == Years \cup {year(MaxDay) + 1}

\* the target years of the carry-over command: previous year has requests
CarryTargets == {y \in CarryYears : (y - 1) \in Years \ {0}}

\* an optional value: << >> when not given, <<v>> when given as v
NotGiven == << >>

\* days_carried_over handed to a new EmployeeEntitlement
CarryInputs == {NotGiven, <<0>>, <<Days(1)>>}

\* --max-carry-over of the command
CapOptions == {NotGiven, <<0>>, <<Days(1)>>}

\* values entered in the entitlement edit form
EditedDays == {0, Days(1)}

\* DecimalField(default=0.0): the field of an object built without a value
FieldValue(given) == IF given = NotGiven THEN 0 ELSE given[1]

Min(a, b) == IF a <= b THEN a ELSE b

\* mutant: the carry-over is recomputed on every save
SaveEntitlementEverySave(ents, reqs, employee, y, obj, is_new) ==
    LET carry_over_days == calculate_unused_days_from_previous_year(ents, reqs, employee, y)
    IN IF obj.days_carried_over = 0 /\ carry_over_days > 0
       THEN [obj EXCEPT !.days_carried_over = carry_over_days]
       ELSE obj

\* EmployeeEntitlement.save: the record written
SaveEntitlement(ents, reqs, employee, y, obj, is_new) ==
    LET carry_over_days == calculate_unused_days_from_previous_year(ents, reqs, employee, y)
    IN IF is_new /\ obj.days_carried_over = 0 /\ carry_over_days > 0
       THEN [obj EXCEPT !.days_carried_over = carry_over_days]
       ELSE obj

\* mutant: the limit is not applied
auto_calculate_carried_over_days_unlimited(ents, reqs, employee, y, max_carry_over) ==
    calculate_unused_days_from_previous_year(ents, reqs, employee, y)

\* EmployeeEntitlement.auto_calculate_carried_over_days of the record of
\* (employee, y): the value set and returned
auto_calculate_carried_over_days(ents, reqs, employee, y, max_carry_over) ==
    LET unused_days == calculate_unused_days_from_previous_year(ents, reqs, employee, y)
    IN IF max_carry_over # NotGiven THEN Min(unused_days, max_carry_over[1])
       ELSE unused_days

\* a record made by EntitlementCreateView or objects.create(...)
CreateEntitlement(employee, y, annual, carried) ==
    /\ LET obj == [exists |-> TRUE,
                   annual_holiday_entitlement |-> annual,
                   days_carried_over |-> FieldValue(carried),
                   time_in_lieu |-> 0]
           err == IF entitlements[employee][y].exists THEN "unique_together" ELSE ""
       IN /\ entitlements' =
                 IF err = ""
                 THEN [entitlements EXCEPT ![employee][y] =
                          SaveEntitlement(entitlements, requests, employee, y, obj, TRUE)]
                 ELSE entitlements
          /\ response' = [handler |-> "entitlement_create", success |-> err = "",
                          employee |-> employee, year |-> y, days_carried_over |-> carried]
    /\ UNCHANGED <<requests, history, balances, holidays, today, pc, ctx>>

\* EntitlementUpdateView: the form's values saved on the existing record
UpdateEntitlement(employee, y, annual, carried, til) ==
    /\ LET err == IF entitlements[employee][y].exists THEN "" ELSE "404"
           obj == [exists |-> TRUE,
                   annual_holiday_entitlement |-> annual,
                   days_carried_over |-> carried,
                   time_in_lieu |-> til]
       IN /\ entitlements' =
                 IF err = ""
                 THEN [entitlements EXCEPT ![employee][y] =
                          SaveEntitlement(entitlements, requests, employee, y, obj, FALSE)]
                 ELSE entitlements
          /\ response' = [handler |-> "entitlement_edit", success |-> err = "",
                          employee |-> employee, year |-> y, days_carried_over |-> <<carried>>]
    /\ UNCHANGED <<requests, history, balances, holidays, today, pc, ctx>>

\* Command.handle: the value handed on as max_carry_over_days
max_carry_over(option) ==
    IF option # NotGiven /\ option[1] # 0 THEN option ELSE NotGiven

\* mutant: the command never refuses
RefusesNever(ents, y, dry_run, force) == FALSE

\* Command.handle: "carry over has already been processed"
Refuses(ents, y, dry_run, force) ==
    /\ ~force
    /\ ~dry_run
    /\ {e \in Users : ents[e][y].exists /\ ents[e][y].days_carried_over > 0} # {}

\* the results of a run that reported nothing
NoResults ==
    [processed_employees |-> 0,
     employees_with_carry_over |-> {},
     total_days_carried_over |-> 0,
     employees_without_previous_year |-> {},
     errors |-> {}]

RECURSIVE SumCarried(_)
SumCarried(entries) ==
    IF entries = {} THEN 0
    ELSE LET x == CHOOSE x \in entries : TRUE
         IN x.carried_over_days + SumCarried(entries \ {x})

\* LeaveReportService.process_year_end_carry_over(year, max_carry_over_days,
\* dry_run): for every entitlement of year - 1 the unused days, the optional
\* cap, and the target year's days_carried_over written or updated unless
\* dry_run; the table afterwards and the results reported
process_year_end_carry_over(ents, reqs, y, max_carry_over_days, dry_run) ==
    LET previous == {e \in Users : ents[e][y - 1].exists}
        unused(e) == calculate_unused_days_from_previous_year(ents, reqs, e, y)
        carried(e) == auto_calculate_carried_over_days(ents, reqs, e, y, max_carry_over_days)
        written(e) == IF ents[e][y].exists
                      THEN [ents[e][y] EXCEPT !.days_carried_over = carried(e)]
                      ELSE [exists |-> TRUE,
                            annual_holiday_entitlement |-> Days(DefaultAnnual),
                            days_carried_over |-> carried(e),
                            time_in_lieu |-> 0]
        entries == {[employee |-> e,
                     unused_days |-> unused(e),
                     carried_over_days |-> carried(e),
                     capped |-> carried(e) < unused(e)] : e \in {p \in previous : carried(p) > 0}}
    IN [entitlements |->
            IF dry_run THEN ents
            ELSE [e \in Users |-> [yy \in DOMAIN ents[e] |->
                     IF yy = y /\ e \in previous THEN written(e) ELSE ents[e][yy]]],
        results |->
            [processed_employees |-> Cardinality(previous),
             employees_with_carry_over |-> entries,
             total_days_carried_over |-> SumCarried(entries),
             employees_without_previous_year |->
                 {e \in Users : ents[e][y].exists /\ e \notin previous},
             errors |-> {}]]

\* mutant: the processor is told to persist whatever --dry-run says
handle_persisting(ents, reqs, y, option, dry_run, force) ==
    IF Refuses(ents, y, dry_run, force)
    THEN [refused |-> TRUE, entitlements |-> ents, results |-> NoResults]
    ELSE LET out == process_year_end_carry_over(ents, reqs, y, max_carry_over(option), FALSE)
         IN [refused |-> FALSE, entitlements |-> out.entitlements, results |-> out.results]

\* Command.handle of process_year_end_carry_over
handle(ents, reqs, y, option, dry_run, force) ==
    IF Refuses(ents, y, dry_run, force)
    THEN [refused |-> TRUE, entitlements |-> ents, results |-> NoResults]
    ELSE LET out == process_year_end_carry_over(ents, reqs, y, max_carry_over(option), dry_run)
         IN [refused |-> FALSE, entitlements |-> out.entitlements, results |-> out.results]

\* manage.py process_year_end_carry_over --year y [--max-carry-over v]
\* [--dry-run] [--force]
ProcessYearEndCarryOver(y, option, dry_run, force) ==
    /\ LET out == handle(entitlements, requests, y, option, dry_run, force)
       IN /\ entitlements' = out.entitlements
          /\ response' = [handler |-> "process_year_end_carry_over", success |-> TRUE,
                          year |-> y, option |-> option,
                          max_carry_over_days |-> max_carry_over(option),
                          dry_run |-> dry_run, force |-> force,
                          refused |-> out.refused, results |-> out.results]
    /\ UNCHANGED <<requests, history, balances, holidays, today, pc, ctx>>

CarryInit ==
    /\ requests = << >>
    /\ history = << >>
    /\ balances = [e \in Users |-> [t \in LeaveTypes \cup HalfDayTypes |-> [y \in Years |-> NoRow]]]
    /\ entitlements =
           [e \in Users |-> [y \in CarryYears |->
               IF e = "alice" /\ y = 1
               THEN [exists |-> TRUE, annual_holiday_entitlement |-> Days(2),
                     days_carried_over |-> 0, time_in_lieu |-> 0]
               ELSE NoRow]]
    /\ holidays = {[date |-> 2, is_active |-> TRUE]}
    /\ today = 1
    /\ response = [handler |-> "none", success |-> TRUE]
    /\ pc = [w \in Workers |-> "idle"]
    /\ ctx = [w \in Workers |-> Idle]

CarryNext ==
    \/ \E e \in ConcUsers, t \in ConcTypes, s \in ConcDates, d \in ConcDates : Submit(e, t, s, d)
    \/ \E u \in Managers, pk \in 1..MaxReq, r \in ConcReasons :
           ApproveLeaveAjax(u, pk, "approve", r)
    \/ \E e \in Users, y \in CarryTargets, c \in CarryInputs :
           CreateEntitlement(e, y, Days(DefaultAnnual), c)
    \/ \E e \in ConcUsers, y \in CarryYears \ {0}, annual \in SeededAnnual,
          c \in EditedDays, til \in EditedDays :
           UpdateEntitlement(e, y, annual, c, til)
    \/ \E y \in CarryTargets, option \in CapOptions, dry_run \in BOOLEAN, force \in BOOLEAN :
           ProcessYearEndCarryOver(y, option, dry_run, force)

CarrySpec == CarryInit /\ [][CarryNext]_vars


\* =================================================================== claims
Active(pk) == requests[pk].status \in {"PENDING", "APPROVED"}

SharesADay(i, j) ==
    /\ requests[i].start_date <= requests[j].end_date
    /\ requests[j].start_date <= requests[i].end_date

RowsOf(pk) == {i \in DOMAIN history : history[i].leave_request = pk}

\* C1: after any sequence of submissions through the eligibility check and
\* of approve / reject / cancel, no two requests of one employee that are
\* both PENDING or APPROVED share a day.
C1_NoOverlappingActive ==
    \A i \in Pks, j \in Pks :
        (i < j /\ requests[i].employee = requests[j].employee /\ Active(i) /\ Active(j))
            => ~SharesADay(i, j)

\* two active requests of one employee on adjacent ranges, one of them
\* already approved
C1_Witness ==
    \E i \in Pks, j \in Pks :
        /\ i < j /\ requests[i].employee = requests[j].employee
        /\ Active(i) /\ Active(j)
        /\ requests[i].end_date + 1 = requests[j].start_date
        /\ RowsOf(i) # {}

\* C2: of two submissions for one employee with overlapping ranges handled
\* concurrently, at most one is stored as PENDING.
C2_AtMostOneOverlappingPending ==
    \A i \in Pks, j \in Pks :
        (i < j /\ requests[i].employee = requests[j].employee
         /\ requests[i].status = "PENDING" /\ requests[j].status = "PENDING")
            => ~SharesADay(i, j)

\* C3 as stated: APPROVED, REJECTED and CANCELLED are terminal.
C3_TerminalAsStated ==
    [][\A pk \in Pks :
          requests[pk].status \in {"APPROVED", "REJECTED", "CANCELLED"}
              => requests'[pk].status = requests[pk].status]_vars

\* C3 amended: REJECTED and CANCELLED are terminal; an APPROVED request
\* changes status only to CANCELLED, and only while its start_date is
\* strictly after today.
C3_Terminal ==
    [][\A pk \in Pks :
          /\ requests[pk].status \in {"REJECTED", "CANCELLED"}
                 => requests'[pk].status = requests[pk].status
          /\ requests[pk].status = "APPROVED"
                 => \/ requests'[pk].status = "APPROVED"
                    \/ /\ requests'[pk].status = "CANCELLED"
                       /\ requests[pk].start_date > today]_vars

\* an approved request was cancelled, and a rejected one exists
C3_Witness ==
    /\ \E i \in DOMAIN history :
           /\ history[i].previous_status = "APPROVED"
           /\ history[i].new_status = "CANCELLED"
           /\ requests[history[i].leave_request].status = "CANCELLED"
    /\ \E pk \in Pks : requests[pk].status = "REJECTED"

\* C4: approve or reject posted for a request that is not PENDING is
\* answered with an error and changes neither the request (status,
\* approver, rejection_reason) nor the history.
C4_ApproveRejectOnlyPending ==
    [][\A u \in Managers, pk \in Pks, a \in {"approve", "reject"}, r \in ReasonInputs :
          (requests[pk].status # "PENDING" /\ ApproveLeaveAjax(u, pk, a, r))
              => /\ requests' = requests
                 /\ history' = history
                 /\ ~response'.success]_vars

\* an approve / reject was refused while a request that had already been
\* approved was on file
C4_Witness ==
    /\ response = [handler |-> "approve", success |-> FALSE]
    /\ \E pk \in Pks : requests[pk].status = "APPROVED"
    /\ \A pk \in Pks : requests[pk].status # "PENDING"


\* C5: a request makes a status transition once: at most one history row
\* records it leaving PENDING, also when handlers that each loaded it while
\* it was PENDING run interleaved.
C5_LeavesPendingOnce ==
    \A pk \in Pks :
        Cardinality({i \in RowsOf(pk) : history[i].previous_status = "PENDING"}) <= 1

ClaimCancellable(pk) ==
    \/ requests[pk].status = "PENDING"
    \/ requests[pk].status = "APPROVED" /\ requests[pk].start_date > today

\* C6: a cancel succeeds only on a request that is PENDING, or APPROVED with
\* start_date strictly after today; on any other request it answers with an
\* error and leaves requests, history and balances as they were.
C6_CancelOnlyCancellable ==
    [][\A u \in Users, pk \in Pks :
          CancelLeaveAjax(u, pk)
              => /\ response'.success => ClaimCancellable(pk)
                 /\ ~ClaimCancellable(pk)
                        => /\ ~response'.success
                           /\ requests' = requests
                           /\ history' = history
                           /\ balances' = balances]_vars

\* a cancel was refused while the only request on file was an approved
\* leave that has started
C6_Witness ==
    /\ response = [handler |-> "cancel", success |-> FALSE]
    /\ Len(requests) = 1
    /\ requests[1].status = "APPROVED"
    /\ requests[1].start_date <= today

Blank(r) == \A i \in DOMAIN r : r[i] = " "

\* C7: a reject whose reason is empty or only whitespace is refused and
\* changes neither the request nor the history; every REJECTED request has
\* a non-empty rejection_reason.
C7_RejectionReasonMandatory ==
    /\ [](\A pk \in Pks :
             requests[pk].status = "REJECTED" => requests[pk].rejection_reason # << >>)
    /\ [][\A u \in Managers, pk \in Pks, r \in ReasonInputs :
             (Blank(r) /\ ApproveLeaveAjax(u, pk, "reject", r))
                 => /\ ~response'.success
                    /\ requests' = requests
                    /\ history' = history]_vars

\* a reject without a reason was refused on a request that is still
\* PENDING, while another request stands rejected with its reason
C7_Witness ==
    /\ response = [handler |-> "approve", success |-> FALSE]
    /\ \E pk \in Pks : requests[pk].status = "PENDING"
    /\ \E pk \in Pks : /\ requests[pk].status = "REJECTED"
                       /\ requests[pk].rejection_reason = <<"no">>

LastRow(h) == h[Len(h)]

StatusOperation ==
    \/ \E u \in Managers, pk \in 1..MaxReq, a \in Actions, r \in ReasonInputs :
           ApproveLeaveAjax(u, pk, a, r)
    \/ \E u \in Users, pk \in 1..MaxReq : CancelLeaveAjax(u, pk)

\* C8: the history is append-only; every successful approve, reject or
\* cancel, and every change of a request's status, appends exactly one row,
\* whose previous_status and new_status are the request's status before and
\* after the step.
C8_HistoryPerTransition ==
    [][/\ Len(history') \in {Len(history), Len(history) + 1}
       /\ SubSeq(history', 1, Len(history)) = history
       /\ \A pk \in Pks :
              requests'[pk].status # requests[pk].status
                  => /\ Len(history') = Len(history) + 1
                     /\ LastRow(history').leave_request = pk
       /\ (StatusOperation /\ response'.success) => Len(history') = Len(history) + 1
       /\ Len(history') = Len(history) + 1
              => LET h == LastRow(history')
                 IN /\ h.previous_status = requests[h.leave_request].status
                    /\ h.new_status = requests'[h.leave_request].status
                    /\ h.previous_status # h.new_status]_vars

\* one request went PENDING -> APPROVED -> CANCELLED and another
\* PENDING -> REJECTED: three rows
C8_Witness ==
    /\ Len(history) = 3
    /\ \E i \in DOMAIN history : history[i].new_status = "APPROVED"
    /\ \E i \in DOMAIN history : history[i].new_status = "CANCELLED"
    /\ \E i \in DOMAIN history : history[i].new_status = "REJECTED"

Latest(S) == CHOOSE i \in S : \A j \in S : j <= i

\* C9: no history row stands for a transition whose status change did not
\* happen: the latest row of a request carries the request's status.
C9_HistoryMatchesStatus ==
    \A pk \in Pks :
        RowsOf(pk) # {} => history[Latest(RowsOf(pk))].new_status = requests[pk].status

ClaimDays(reqs, employee, leave_type, y, status) ==
    SumDuration(reqs, {pk \in 1..Len(reqs) :
        /\ reqs[pk].employee = employee /\ reqs[pk].leave_type = leave_type
        /\ year(reqs[pk].start_date) = y /\ reqs[pk].status = status})

\* C10: after every status change of a request, the balance row of its
\* (employee, leave_type, year of start_date) holds the summed durations of
\* the APPROVED requests as used_days and of the PENDING ones as
\* pending_days.
C10_BalanceRecomputed ==
    [][\A pk \in Pks :
          requests'[pk].status # requests[pk].status
              => LET r == requests'[pk]
                     y == year(r.start_date)
                     b == balances'[r.employee][r.leave_type][y]
                 IN b.exists
                        => /\ b.used_days = ClaimDays(requests', r.employee, r.leave_type, y, "APPROVED")
                           /\ b.pending_days = ClaimDays(requests', r.employee, r.leave_type, y, "PENDING")]_vars


\* the days of [s, e] that are neither a Saturday / Sunday nor the date of
\* an active holiday
ClaimCountedDays(s, e, hols) ==
    Cardinality({d \in s..e :
        /\ weekday(d) \notin {5, 6}
        /\ ~\E h \in hols : h.is_active /\ h.date = d})

\* C17: for every range and every holiday table, calculate_leave_duration
\* returns 0 when end_date < start_date, never a negative value, and a
\* value that does not decrease when end_date grows with start_date fixed.
C17_DurationMonotone ==
    response.handler = "calculate_leave_duration"
        => /\ response.end_date < response.start_date => response.duration = 0
           /\ response.duration >= 0
           /\ \A e \in CalDates :
                  e >= response.end_date
                      => calculate_leave_duration(response.start_date, e, holidays)
                             >= response.duration

\* Thursday to Friday counted two days; ending on the Sunday gives the
\* same, ending on the next Monday one more
C17_Witness ==
    /\ response.handler = "calculate_leave_duration"
    /\ response.start_date = 4 /\ response.end_date = 5
    /\ response.duration = Days(2)
    /\ calculate_leave_duration(4, 7, holidays) = Days(2)
    /\ calculate_leave_duration(4, 8, holidays) = Days(3)

\* C19: with both exclusion flags at their default, the calculated duration
\* of a range is the number of its days that are neither a Saturday /
\* Sunday nor the date of an active holiday; an inactive holiday excludes
\* nothing.
C19_DurationCountsBusinessDays ==
    response.handler = "calculate_leave_duration"
        => response.duration
               = Days(ClaimCountedDays(response.start_date, response.end_date, holidays))

\* Monday to Sunday with an active holiday on the Tuesday and an inactive
\* one on the Wednesday: four days
C19_Witness ==
    /\ response.handler = "calculate_leave_duration"
    /\ response.start_date = 1 /\ response.end_date = 7
    /\ [date |-> 2, is_active |-> TRUE] \in holidays
    /\ [date |-> 3, is_active |-> FALSE] \in holidays
    /\ response.duration = Days(4)

\* C18: for a leave type with the half-day flag set every counted day of
\* the range contributes 0.5 instead of 1.0 to the duration the eligibility
\* check computes and the submitted request stores (amounts are in half
\* days: one per counted day).
C18_HalfDayContributesHalf ==
    \A pk \in Pks :
        is_half_day(requests[pk].leave_type)
            => requests[pk].duration_days
                   = ClaimCountedDays(requests[pk].start_date, requests[pk].end_date, holidays)

Elements(seq) == {seq[i] : i \in DOMAIN seq}

Returned(fn) == response.handler = fn /\ response.success

\* C11: check_leave_eligibility reports an insufficient-balance error
\* exactly when the leave type affects entitlement and the requested
\* duration (the counted days of the range) exceeds remaining_days of the
\* employee's summary for the year of start_date; a type that does not
\* affect entitlement gets no balance error; eligible is true exactly when
\* the error list is empty, whatever the warnings.
C11_BalanceErrorExactly ==
    Returned("check_leave_eligibility")
        => LET r == response.result
               requested == Days(ClaimCountedDays(response.start_date, response.end_date, holidays))
               summary == get_employee_leave_summary(entitlements, requests, response.employee,
                                                     year(response.start_date))
           IN /\ r.calculated_duration = requested
              /\ ("insufficient_balance" \in Elements(r.errors))
                     <=> (response.leave_type = "AL" /\ requested > summary.remaining_days)
              /\ response.leave_type = "UL" => "insufficient_balance" \notin Elements(r.errors)
              /\ r.eligible <=> r.errors = << >>

\* a request that uses up the remaining days exactly was found eligible,
\* with a warning, while the employee already had a request on file
C11_Witness ==
    /\ Returned("check_leave_eligibility")
    /\ response.leave_type = "AL"
    /\ response.result.eligible
    /\ response.result.warnings # << >>
    /\ response.result.calculated_duration > 0
    /\ response.result.calculated_duration
           = get_employee_leave_summary(entitlements, requests, response.employee,
                                        year(response.start_date)).remaining_days
    /\ \E pk \in Pks : requests[pk].employee = response.employee /\ Active(pk)

\* C12: check_leave_eligibility reports an overlap error, and eligible =
\* false, exactly when the employee has a PENDING or APPROVED request r with
\* r.start_date <= new.end_date and r.end_date >= new.start_date; REJECTED
\* and CANCELLED requests and other employees' requests never cause it.
C12_OverlapErrorExactly ==
    Returned("check_leave_eligibility")
        => LET r == response.result
               clash == \E pk \in Pks :
                            /\ requests[pk].employee = response.employee
                            /\ requests[pk].status \in {"PENDING", "APPROVED"}
                            /\ requests[pk].start_date <= response.end_date
                            /\ requests[pk].end_date >= response.start_date
           IN /\ ("overlap" \in Elements(r.errors)) <=> clash
              /\ clash => ~r.eligible

\* an overlap error for a range whose first day is the last day of the
\* employee's approved request, with another employee's request on file
C12_Witness ==
    /\ Returned("check_leave_eligibility")
    /\ "overlap" \in Elements(response.result.errors)
    /\ \E pk \in Pks :
           /\ requests[pk].employee = response.employee
           /\ requests[pk].status = "APPROVED"
           /\ requests[pk].end_date = response.start_date
           /\ requests[pk].start_date < response.start_date
    /\ \E pk \in Pks : requests[pk].employee # response.employee

\* the summed durations of the first n requests that belong to the
\* employee, start in year y and have one of the statuses
RECURSIVE ClaimYearSum(_, _, _, _)
ClaimYearSum(n, employee, y, statuses) ==
    IF n = 0 THEN 0
    ELSE (IF /\ requests[n].employee = employee
             /\ year(requests[n].start_date) = y
             /\ requests[n].status \in statuses
          THEN requests[n].duration_days ELSE 0)
         + ClaimYearSum(n - 1, employee, y, statuses)

ClaimAvailable(employee, y) ==
    entitlements[employee][y].annual_holiday_entitlement
    + entitlements[employee][y].days_carried_over
    + entitlements[employee][y].time_in_lieu

\* C13: for every employee and year, the summary's remaining_days is annual
\* entitlement + carried over + time in lieu, minus the durations of that
\* year's APPROVED requests, minus those of that year's PENDING requests;
\* REJECTED and CANCELLED requests contribute nothing.
C13_RemainingDays ==
    /\ Returned("get_employee_leave_summary")
           => response.result.remaining_days
                  = ClaimAvailable(response.employee, response.year)
                    - ClaimYearSum(Len(requests), response.employee, response.year, {"APPROVED"})
                    - ClaimYearSum(Len(requests), response.employee, response.year, {"PENDING"})
    /\ \A e \in Users, y \in Years :
           entitlements[e][y].exists
               => get_employee_leave_summary(entitlements, requests, e, y).remaining_days
                      = ClaimAvailable(e, y)
                        - ClaimYearSum(Len(requests), e, y, {"APPROVED", "PENDING"})

\* a summary returned for an employee with one approved and one cancelled
\* or rejected request in the year
C13_Witness ==
    /\ Returned("get_employee_leave_summary")
    /\ response.result.remaining_days < response.result.total_available
    /\ \E i \in Pks, j \in Pks :
           /\ requests[i].employee = response.employee
           /\ requests[j].employee = response.employee
           /\ year(requests[i].start_date) = response.year
           /\ year(requests[j].start_date) = response.year
           /\ requests[i].status = "APPROVED"
           /\ requests[j].status \in {"REJECTED", "CANCELLED"}
           /\ requests[j].duration_days > 0

\* C14: approving a request of duration d lowers the remaining entitlement
\* (available minus approved days) by exactly d; d moves from pending_days
\* to approved_days, so the summary's remaining_days, which counted the
\* request while it was pending, is the remaining days of the other
\* requests minus d before and after.
C14_ApproveDecreasesByDuration ==
    [][\A u \in Managers, pk \in Pks, r \in ReasonInputs :
          LET e == requests[pk].employee
              y == year(requests[pk].start_date)
              d == requests[pk].duration_days
              before == get_employee_leave_summary(entitlements, requests, e, y)
              after == get_employee_leave_summary(entitlements', requests', e, y)
          IN (ApproveLeaveAjax(u, pk, "approve", r) /\ response'.success
              /\ entitlements[e][y].exists)
                 => /\ requests'[pk].duration_days = d
                    /\ remaining_entitlement(entitlements'[e][y], requests', e, y)
                           = remaining_entitlement(entitlements[e][y], requests, e, y) - d
                    /\ after.approved_days = before.approved_days + d
                    /\ after.pending_days = before.pending_days - d
                    /\ after.remaining_days = before.remaining_days
                    /\ after.remaining_days
                           = ClaimAvailable(e, y)
                             - (ClaimYearSum(Len(requests), e, y, {"APPROVED", "PENDING"}) - d)
                             - d]_vars

\* an approve succeeded for a request of non-zero duration whose employee
\* has an entitlement and another request still pending
C14_Witness ==
    /\ response = [handler |-> "approve", success |-> TRUE]
    /\ \E i \in Pks, j \in Pks :
           /\ requests[i].employee = requests[j].employee
           /\ requests[i].status = "APPROVED" /\ requests[i].duration_days > 0
           /\ requests[j].status = "PENDING" /\ requests[j].duration_days > 0
           /\ entitlements[requests[i].employee][year(requests[i].start_date)].exists

ClaimNoHoliday(s, e) == ~\E h \in holidays : h.is_active /\ h.date >= s /\ h.date <= e

\* C15: for an employee with total available days E and no other request,
\* a request of an entitlement-affecting type covering d business days,
\* d <= E, with no holiday in range is eligible with calculated_duration d;
\* once it is submitted and approved the summary's remaining_days is E - d.
C15_EligibleThenRemaining ==
    /\ (/\ Returned("check_leave_eligibility")
        /\ response.leave_type = "AL"
        /\ response.start_date <= response.end_date
        /\ ClaimNoHoliday(response.start_date, response.end_date)
        /\ \A pk \in Pks : requests[pk].employee # response.employee
        /\ Days(ClaimCountedDays(response.start_date, response.end_date, holidays))
               <= ClaimAvailable(response.employee, year(response.start_date)))
           => /\ response.result.eligible
              /\ response.result.calculated_duration
                     = Days(ClaimCountedDays(response.start_date, response.end_date, holidays))
    /\ Returned("get_employee_leave_summary")
           => \A pk \in Pks :
                  (/\ requests[pk].employee = response.employee
                   /\ \A j \in Pks : j # pk => requests[j].employee # response.employee
                   /\ year(requests[pk].start_date) = response.year
                   /\ requests[pk].leave_type = "AL"
                   /\ requests[pk].status = "APPROVED"
                   /\ ClaimNoHoliday(requests[pk].start_date, requests[pk].end_date))
                      => response.result.remaining_days
                             = ClaimAvailable(response.employee, response.year)
                               - Days(ClaimCountedDays(requests[pk].start_date,
                                                       requests[pk].end_date, holidays))

\* the summary returned after the employee's only request, one business
\* day without a holiday, was approved
C15_Witness ==
    /\ Returned("get_employee_leave_summary")
    /\ response.result.remaining_days = response.result.total_available - Days(1)
    /\ \E pk \in Pks :
           /\ requests[pk].employee = response.employee
           /\ \A j \in Pks : j # pk => requests[j].employee # response.employee
           /\ year(requests[pk].start_date) = response.year
           /\ requests[pk].leave_type = "AL"
           /\ requests[pk].status = "APPROVED"
           /\ ClaimNoHoliday(requests[pk].start_date, requests[pk].end_date)

\* C16: get_employee_leave_summary called twice for the same employee and
\* year, nothing else happening in between, gives the same result both
\* times, also when the first call creates the entitlement.
C16_SummaryIdempotent ==
    [][\A e \in Users, y \in Years :
          (/\ response.handler = "get_employee_leave_summary"
           /\ response.employee = e /\ response.year = y
           /\ GetEmployeeLeaveSummary(e, y))
              => response' = response]_vars

\* C20: get_employee_leave_summary called for an (employee, year) without
\* an entitlement creates exactly one, and a zero one:
\* annual_holiday_entitlement, days_carried_over and time_in_lieu are 0.
C20_LazyZeroEntitlement ==
    [][\A e \in Users, y \in Years :
          (GetEmployeeLeaveSummary(e, y) /\ ~entitlements[e][y].exists)
              => /\ entitlements'[e][y]
                        = [exists |-> TRUE, annual_holiday_entitlement |-> 0,
                           days_carried_over |-> 0, time_in_lieu |-> 0]
                 /\ \A e2 \in Users, y2 \in Years :
                        <<e2, y2>> # <<e, y>> => entitlements'[e2][y2] = entitlements[e2][y2]]_vars

\* C27: the duration_days stored on a request submitted through the form
\* is the calculated_duration the eligibility check returned for it, also
\* when that is 0 (a range of weekend days and active holidays only).
C27_StoredIsCalculated ==
    [][\A e \in Users, t \in LeaveTypes, s \in Dates, d \in Dates :
          (Submit(e, t, s, d) /\ response'.success)
              => LastRow(requests').duration_days
                     = check_leave_eligibility(entitlements, requests, holidays, today,
                                               e, t, s, d).calculated_duration]_vars

\* the PENDING and APPROVED days of the employee's requests starting in
\* year y, leave type by leave type
ClaimAllTypeDays(employee, y) ==
    ClaimDays(requests, employee, "AL", y, "PENDING")
    + ClaimDays(requests, employee, "AL", y, "APPROVED")
    + ClaimDays(requests, employee, "UL", y, "PENDING")
    + ClaimDays(requests, employee, "UL", y, "APPROVED")
    + ClaimDays(requests, employee, "AL.5", y, "PENDING")
    + ClaimDays(requests, employee, "AL.5", y, "APPROVED")

C26_RemainingNeverNegative ==
    \A e \in Users, y \in Years :
        (/\ entitlements[e][y].exists
         /\ \A pk \in Pks : requests[pk].employee = e
                => requests[pk].leave_type \in {"AL", "AL.5"})
            => get_employee_leave_summary(entitlements, requests, e, y).remaining_days >= 0

\* C29: when the owner edits their own PENDING request through the update
\* form with unchanged dates, or with dates that overlap only the request's
\* own current range, the edit is not rejected as overlapping an existing
\* request.
C29_EditIgnoresItself ==
    [][\A pk \in Pks, s \in Dates, d \in Dates :
          LET r == requests[pk]
          IN (/\ UpdateLeaveRequest(r.employee, pk, r.leave_type, s, d)
              /\ r.status = "PENDING"
              /\ s <= d
              /\ \A j \in Pks \ {pk} :
                     (requests[j].employee = r.employee /\ Active(j))
                         => (requests[j].start_date > d \/ requests[j].end_date < s))
                 => FormError(entitlements, requests, holidays, today,
                              r.employee, r.leave_type, s, d) # "overlap"]_vars

\* C30: approve and reject succeed only for a staff or superuser account,
\* cancel only for the employee who owns the request; a request never
\* becomes APPROVED by an account that is not staff.
C30_OnlyStaffDecides ==
    [][\A u \in Users, pk \in Pks :
          /\ \A a \in {"approve", "reject"}, r \in ReasonInputs :
                 (ApproveLeaveAjax(u, pk, a, r) /\ response'.success) => u \in Staff
          /\ (CancelLeaveAjax(u, pk) /\ response'.success) => u = requests[pk].employee
          /\ (requests[pk].status # "APPROVED" /\ requests'[pk].status = "APPROVED")
                 => requests'[pk].approved_by \in Staff]_vars

\* the unused days of the year before y, from the tables
ClaimUnused(employee, y) ==
    IF entitlements[employee][y - 1].exists
    THEN Max(0, entitlements[employee][y - 1].annual_holiday_entitlement
                - ClaimYearSum(Len(requests), employee, y - 1, {"APPROVED"}))
    ELSE 0

ClaimCapped(unused, cap) == IF cap = NotGiven THEN unused ELSE Min(unused, cap[1])

\* a step of the carry-over command, with the options its response records
ClaimRun ==
    /\ response'.handler = "process_year_end_carry_over"
    /\ ProcessYearEndCarryOver(response'.year, response'.option,
                               response'.dry_run, response'.force)

\* a step that created an entitlement record
ClaimCreated ==
    /\ response'.handler = "entitlement_create"
    /\ response'.success
    /\ CreateEntitlement(response'.employee, response'.year,
                         entitlements'[response'.employee][response'.year]
                             .annual_holiday_entitlement,
                         response'.days_carried_over)

\* a step that saved an existing entitlement record
ClaimEdited ==
    /\ response'.handler = "entitlement_edit"
    /\ response'.success
    /\ UpdateEntitlement(response'.employee, response'.year,
                         entitlements'[response'.employee][response'.year]
                             .annual_holiday_entitlement,
                         response'.days_carried_over[1],
                         entitlements'[response'.employee][response'.year].time_in_lieu)

ClaimEntryOf(results, employee) ==
    {x \in results.employees_with_carry_over : x.employee = employee}

\* C21 (as first stated): a new EmployeeEntitlement gets the auto carry-over
\* only when days_carried_over is not given; a record created with a value
\* given, 0 included, keeps that value; saving an existing record never
\* recomputes days_carried_over.
C21_GivenValueKept ==
    [][LET e == response'.employee
           y == response'.year
           c == response'.days_carried_over
       IN /\ ClaimCreated
                 => entitlements'[e][y].days_carried_over
                        = IF c = NotGiven THEN ClaimUnused(e, y) ELSE c[1]
          /\ ClaimEdited
                 => entitlements'[e][y].days_carried_over = c[1]]_vars

\* C21 (amended): a new EmployeeEntitlement whose days_carried_over is 0,
\* left at the default or given as 0, gets max(0, previous year's annual
\* entitlement - previous year's days taken), 0 when there is no
\* previous-year entitlement; a record created with a non-zero value keeps
\* it; saving an existing record never recomputes days_carried_over.
C21_ZeroIsUnset ==
    [][LET e == response'.employee
           y == response'.year
           c == response'.days_carried_over
       IN /\ ClaimCreated
                 => entitlements'[e][y].days_carried_over
                        = IF FieldValue(c) = 0 THEN ClaimUnused(e, y) ELSE c[1]
          /\ ClaimEdited
                 => entitlements'[e][y].days_carried_over = c[1]]_vars

\* an existing record was saved with days_carried_over 0 and kept it
\* although the previous year has unused days
C21_Witness ==
    /\ response.handler = "entitlement_edit" /\ response.success
    /\ response.year \in CarryTargets
    /\ response.days_carried_over = <<0>>
    /\ entitlements[response.employee][response.year].days_carried_over = 0
    /\ ClaimUnused(response.employee, response.year) > 0

\* C22: for each employee with a previous-year entitlement the processor's
\* carried-over days are min(max(0, previous annual entitlement - previous
\* days taken), cap) when it is given a cap and max(0, ...) otherwise, never
\* negative and independent of the previous year's carried-over and
\* time-in-lieu days; the entry reported is flagged capped exactly when the
\* cap cut the unused days.
C22_CarriedOverDays ==
    [][(ClaimRun /\ ~response'.refused)
          => \A e \in Users :
                entitlements[e][response'.year - 1].exists
                    => LET y == response'.year
                           unused == ClaimUnused(e, y)
                           cap == response'.max_carry_over_days
                           expected == ClaimCapped(unused, cap)
                           entry == ClaimEntryOf(response'.results, e)
                       IN /\ expected >= 0
                          /\ ~response'.dry_run
                                 => /\ entitlements'[e][y].exists
                                    /\ entitlements'[e][y].days_carried_over = expected
                          /\ entry = IF expected > 0
                                     THEN {[employee |-> e, unused_days |-> unused,
                                            carried_over_days |-> expected,
                                            capped |-> cap # NotGiven /\ unused > cap[1]]}
                                     ELSE {}]_vars

\* a real run with a cap wrote a capped value for an employee whose
\* previous-year record has carried-over and time-in-lieu days
C22_Witness ==
    /\ response.handler = "process_year_end_carry_over"
    /\ ~response.refused /\ ~response.dry_run
    /\ response.max_carry_over_days # NotGiven
    /\ \E x \in response.results.employees_with_carry_over :
           /\ x.capped
           /\ x.unused_days > x.carried_over_days
           /\ entitlements[x.employee][response.year].days_carried_over = x.carried_over_days
           /\ entitlements[x.employee][response.year - 1].days_carried_over > 0
           /\ entitlements[x.employee][response.year - 1].time_in_lieu > 0

\* C23: whenever --max-carry-over is given to the command, the value 0
\* included, no carried-over days written or reported for the target year
\* exceed that value.
C23_CapRespected ==
    [][(ClaimRun /\ ~response'.refused /\ response'.option # NotGiven)
          => /\ \A x \in response'.results.employees_with_carry_over :
                    x.carried_over_days <= response'.option[1]
             /\ ~response'.dry_run
                    => \A e \in Users :
                          entitlements[e][response'.year - 1].exists
                              => entitlements'[e][response'.year].days_carried_over
                                     <= response'.option[1]]_vars

\* C24 (as first stated): a dry run reports the same per-employee figures
\* as a real run with the same options from the same state, and changes no
\* EmployeeEntitlement.
C24_DryRunSameAsRealRun ==
    [][(ClaimRun /\ response'.dry_run)
          => /\ entitlements' = entitlements
             /\ response'.results.employees_with_carry_over
                    = handle(entitlements, requests, response'.year, response'.option,
                             FALSE, response'.force).results.employees_with_carry_over]_vars

\* C24 (amended): a dry run changes no EmployeeEntitlement and is never
\* refused; when the real run with the same options from the same state is
\* not refused, the dry run reports the same results, and each figure it
\* reports is the days_carried_over the real run writes (0 is written for an
\* employee with a previous-year record and no entry).
C24_DryRunSameAsProcessedRun ==
    [][(ClaimRun /\ response'.dry_run)
          => LET y == response'.year
                 real == handle(entitlements, requests, y, response'.option,
                                FALSE, response'.force)
             IN /\ entitlements' = entitlements
                /\ ~response'.refused
                /\ ~real.refused
                       => /\ response'.results = real.results
                          /\ \A e \in Users :
                                 entitlements[e][y - 1].exists
                                     => LET entry == ClaimEntryOf(response'.results, e)
                                        IN real.entitlements[e][y].days_carried_over
                                               = IF entry = {} THEN 0
                                                 ELSE (CHOOSE x \in entry : TRUE)
                                                          .carried_over_days]_vars

\* a forced dry run reported a figure that differs from the days_carried_over
\* stored for the employee
C24_Witness ==
    /\ response.handler = "process_year_end_carry_over"
    /\ response.dry_run /\ response.force
    /\ \E x \in response.results.employees_with_carry_over :
           /\ entitlements[x.employee][response.year].exists
           /\ entitlements[x.employee][response.year].days_carried_over > 0
           /\ entitlements[x.employee][response.year].days_carried_over # x.carried_over_days

\* C25: a run that is neither forced nor a dry run, started when an
\* entitlement of the target year has days_carried_over > 0, refuses to
\* process and leaves every entitlement unchanged.
C25_RefusesSecondRun ==
    [][(/\ ClaimRun
        /\ ~response'.dry_run /\ ~response'.force
        /\ \E e \in Users : /\ entitlements[e][response'.year].exists
                             /\ entitlements[e][response'.year].days_carried_over > 0)
           => /\ response'.refused
              /\ response'.results.employees_with_carry_over = {}
              /\ entitlements' = entitlements]_vars

\* a non-forced real run was refused while the previous year still has
\* unused days that differ from the carry-over stored
C25_Witness ==
    /\ response.handler = "process_year_end_carry_over"
    /\ response.refused /\ ~response.dry_run /\ ~response.force
    /\ \E e \in Users :
           /\ entitlements[e][response.year].exists
           /\ entitlements[e][response.year].days_carried_over > 0
           /\ ClaimUnused(e, response.year) # entitlements[e][response.year].days_carried_over

====
